---- MODULE Spec2Model ----
(***************************************************************************)
(* slackline: a relay of Slack outgoing-webhook posts to the other         *)
(* channels of the origin channel's group (src/slackline.go).              *)
(*                                                                         *)
(* Strings that the program only compares or copies are TLA+ strings; the  *)
(* message text, which RewriteMentions scans with a regular expression,    *)
(* is a sequence of one-character strings.                                 *)
(***************************************************************************)
EXTENDS Naturals, Sequences, FiniteSets

VARIABLES
    env,      \* the environment read by GetConfiguration (already split)
    server,   \* position of main: "start", "serving", "fatal"
    config,   \* the global *Configuration (empty before GetConfiguration)
    pc,       \* per handler goroutine: position in the POST /bridge handler
    form,     \* per handler: the posted form fields
    msg,      \* per handler: the handler's slackMessage
    idx,      \* per handler: position of Forward's range loop
    status,   \* per handler: the response status
    calls,    \* per handler: the GetUserInfo calls made so far
    rewrote,  \* per handler: whether RewriteMentions has run
    posts     \* per handler: the http.Post calls made so far

vars == <<env, server, config, pc, form, msg, idx, status, calls, rewrote, posts>>

(***************************************************************************)
(* Bounds of the model.                                                    *)
(***************************************************************************)
MaxGroupLen == 3   \* longest channel group of SLACKLINE_CHANNEL_MAP

----------------------------------------------------------------------------
(* Team and Channel *)

Team(id, api, incoming) == [Id |-> id, Client |-> api, IncomingToken |-> incoming]

Channel(t, c) == [TeamId |-> t, ChannelId |-> c]

ZeroChannel == Channel("", "")

AllChannels == {Channel("T1", "C1"), Channel("T2", "C2"), Channel("T3", "C3")}

----------------------------------------------------------------------------
(* GetConfiguration *)

\* teams[team.Id] = team, in order: a later entry of the same id overwrites.
RECURSIVE BuildTeams(_, _)
BuildTeams(teamSeq, k) ==
    IF k = 0 THEN [id \in {} |-> Team("", "", "")]
    ELSE LET before == BuildTeams(teamSeq, k - 1)
             team == teamSeq[k]
         IN  [id \in DOMAIN before \cup {team.Id} |->
                 IF id = team.Id THEN team ELSE before[id]]

\* BuildGroup without the test for an entry already present.
RECURSIVE BuildGroup_Overwrite(_, _, _, _)
BuildGroup_Overwrite(st, group, g, key) ==
    IF st.panic \/ key > Len(group) THEN st
    ELSE LET channel == group[key]
             heap == [st.heap EXCEPT ![g][key] = channel]
         IN  BuildGroup_Overwrite([panic |-> FALSE, heap |-> heap,
                                   channelMap |-> [c \in DOMAIN st.channelMap \cup {channel} |->
                                                     IF c = channel THEN g ELSE st.channelMap[c]]],
                                  group, g, key + 1)

\* The inner loop over one group. The slice `channels` is heap[g], made with
\* the group's full length and zero-valued elements; channelMap holds a
\* reference (g) to it, not a copy.
RECURSIVE BuildGroup(_, _, _, _)
BuildGroup(st, group, g, key) ==
    IF st.panic \/ key > Len(group) THEN st
    ELSE LET channel == group[key]
             heap == [st.heap EXCEPT ![g][key] = channel]
         IN  IF channel \notin DOMAIN st.channelMap
             THEN BuildGroup([panic |-> FALSE, heap |-> heap,
                              channelMap |-> [c \in DOMAIN st.channelMap \cup {channel} |->
                                                IF c = channel THEN g ELSE st.channelMap[c]]],
                             group, g, key + 1)
             ELSE [st EXCEPT !.panic = TRUE]

\* The outer loop over the groups.
RECURSIVE BuildChannelMap(_, _)
BuildChannelMap(groups, g) ==
    IF g = 0 THEN [panic |-> FALSE, heap |-> <<>>, channelMap |-> [c \in {} |-> 0]]
    ELSE LET before == BuildChannelMap(groups, g - 1)
         IN  IF before.panic THEN before
             ELSE BuildGroup([before EXCEPT !.heap =
                                 Append(@, [i \in 1..Len(groups[g]) |-> ZeroChannel])],
                             groups[g], g, 1)

\* outboundTokens[channel] = secret, in order.
RECURSIVE BuildTokens(_, _)
BuildTokens(tokenSeq, k) ==
    IF k = 0 THEN [c \in {} |-> ""]
    ELSE LET before == BuildTokens(tokenSeq, k - 1)
             e == tokenSeq[k]
         IN  [c \in DOMAIN before \cup {e.channel} |->
                 IF c = e.channel THEN e.secret ELSE before[c]]

\* GetConfiguration whose channelMap entry is a copy of the slice as filled
\* when the channel was entered (channels[:key+1]), not the shared slice.
GetConfiguration_Snapshot(e) ==
    LET cm == BuildChannelMap(e.groups, Len(e.groups))
    IN  IF cm.panic THEN [panic |-> TRUE]
        ELSE [panic |-> FALSE,
              teams |-> BuildTeams(e.teams, Len(e.teams)),
              channelMap |-> [c \in DOMAIN cm.channelMap |->
                                LET slice == cm.heap[cm.channelMap[c]]
                                IN  SubSeq(slice, 1, CHOOSE k \in 1..Len(slice) : slice[k] = c)],
              outboundTokens |-> BuildTokens(e.tokens, Len(e.tokens))]

\* The result of GetConfiguration: a panic, or the Configuration. The
\* channelMap entry of a channel is the slice it references.
GetConfiguration(e) ==
    LET cm == BuildChannelMap(e.groups, Len(e.groups))
    IN  IF cm.panic THEN [panic |-> TRUE]
        ELSE [panic |-> FALSE,
              teams |-> BuildTeams(e.teams, Len(e.teams)),
              channelMap |-> [c \in DOMAIN cm.channelMap |-> cm.heap[cm.channelMap[c]]],
              outboundTokens |-> BuildTokens(e.tokens, Len(e.tokens))]

----------------------------------------------------------------------------
(* The environments the model starts from *)

SeqsUpTo(S, n) == UNION {[1..k -> S] : k \in 1..n}

Groups == SeqsUpTo(AllChannels, MaxGroupLen)

\* One or two groups (strings.Split never yields an empty list).
EnvGroups == {<<g>> : g \in Groups} \cup {<<g, h>> : g, h \in Groups}

EnvTeams ==
    { <<Team("T1", "api1", "in1"), Team("T2", "api2", "in2"), Team("T3", "api3", "in3")>>,
      <<Team("T1", "api1", "in1"), Team("T2", "api2", "in2")>> }

Secret(c, s) == [channel |-> c, secret |-> s]

EnvTokens ==
    { <<Secret(Channel("T1", "C1"), "s1"), Secret(Channel("T2", "C2"), "s2"),
        Secret(Channel("T3", "C3"), "s3")>>,
      <<Secret(Channel("T1", "C1"), "s1")>> }

EnvPorts == {"", "5000"}

Envs == [port : EnvPorts, teams : EnvTeams, groups : EnvGroups, tokens : EnvTokens]

----------------------------------------------------------------------------
(* Lookups in the global configuration *)

NoConfig ==
    [teams |-> [id \in {} |-> Team("", "", "")],
     channelMap |-> [c \in {} |-> <<>>],
     outboundTokens |-> [c \in {} |-> ""]]

\* A *Team: nil when the map has no entry for the team id.
NilTeam == [nil |-> TRUE, Id |-> "", Client |-> "", IncomingToken |-> ""]

GetTeam(c) ==
    IF c.TeamId \in DOMAIN config.teams
    THEN LET t == config.teams[c.TeamId]
         IN  [nil |-> FALSE, Id |-> t.Id, Client |-> t.Client, IncomingToken |-> t.IncomingToken]
    ELSE NilTeam

\* ChannelMapAt that falls back to some configured group when the map has
\* no entry.
ChannelMapAt_Fallback(c) ==
    IF c \in DOMAIN config.channelMap THEN config.channelMap[c]
    ELSE config.channelMap[CHOOSE d \in DOMAIN config.channelMap : TRUE]

\* config.channelMap[c]: the nil slice when the map has no entry.
ChannelMapAt(c) ==
    IF c \in DOMAIN config.channelMap THEN config.channelMap[c] ELSE <<>>

\* config.outboundTokens[c]: the empty string when the map has no entry.
OutboundTokenAt(c) ==
    IF c \in DOMAIN config.outboundTokens THEN config.outboundTokens[c] ELSE ""

VerifyToken(c, token) == OutboundTokenAt(c) = token

----------------------------------------------------------------------------
(* Message text and mention markup *)

U1 == <<"U", "1">>
U2 == <<"U", "2">>
al == <<"a", "l">>   \* the name users.info returns
bo == <<"b", "o">>   \* a name cached inline in the markup

Mention(id) == <<"<", "@">> \o id \o <<">">>
MentionNamed(id, name) == <<"<", "@">> \o id \o <<"|">> \o name \o <<">">>

\* The outcome of (*slack.Client).GetUserInfo: a user and a nil error, or a
\* nil user and an error.
NilUser == [nil |-> TRUE, Name |-> <<>>, ImageOriginal |-> ""]
LookupResults ==
    { [err |-> FALSE, user |-> [nil |-> FALSE, Name |-> al, ImageOriginal |-> "img"]],
      [err |-> TRUE, user |-> NilUser] }

\* mentionRegexp, "<@[^>]+>": whether a match starts at position i.
MatchAt(text, i) ==
    /\ i + 3 <= Len(text)
    /\ text[i] = "<"
    /\ text[i + 1] = "@"
    /\ text[i + 2] # ">"
    /\ \E j \in (i + 3)..Len(text) : text[j] = ">"

\* The position of the ">" that ends the match starting at i.
MatchEnd(text, i) ==
    CHOOSE j \in (i + 3)..Len(text) :
        text[j] = ">" /\ \A k \in (i + 2)..(j - 1) : text[k] # ">"

Contains(s, ch) == \E k \in 1..Len(s) : s[k] = ch

\* strings.Split(s, "|")[1]: what lies between the first "|" and the next
\* one (or the end).
SplitSecond(s) ==
    LET first == CHOOSE k \in 1..Len(s) : s[k] = "|" /\ \A m \in 1..(k - 1) : s[m] # "|"
        rest == SubSeq(s, first + 1, Len(s))
    IN  IF Contains(rest, "|")
        THEN SubSeq(rest, 1, (CHOOSE k \in 1..Len(rest) :
                                 rest[k] = "|" /\ \A m \in 1..(k - 1) : rest[m] # "|") - 1)
        ELSE rest

UserCall(by, team, user, res) ==
    [by |-> by, team |-> team.Id, user |-> user, err |-> res.err, name |-> res.user.Name]

\* The function RewriteMentions gives to ReplaceAllStringFunc, applied to
\* the match s. st carries the text built so far, the GetUserInfo calls made
\* and whether the goroutine has panicked; oracle[k] is the outcome of the
\* k-th GetUserInfo call.
ReplaceMention(st, s, team, oracle) ==
    LET inner == SubSeq(s, 3, Len(s) - 1)
    IN  IF Contains(inner, "|")
        THEN [st EXCEPT !.out = @ \o <<"@">> \o SplitSecond(inner)]
        ELSE IF team.nil THEN [st EXCEPT !.panic = TRUE]
        ELSE LET res == oracle[Len(st.calls) + 1]
                 made == Append(st.calls, UserCall("RewriteMentions", team, inner, res))
             IN  IF ~res.err
                 THEN [st EXCEPT !.calls = made, !.out = @ \o <<"@">> \o inner]
                 ELSE IF res.user.nil
                 THEN [st EXCEPT !.calls = made, !.panic = TRUE]
                 ELSE [st EXCEPT !.calls = made, !.out = @ \o <<"@">> \o res.user.Name]

\* ReplaceAllStringFunc: one pass from the left over the original text,
\* each match replaced and the scan resumed after it.
RECURSIVE ReplaceAll(_, _, _, _, _)
ReplaceAll(st, text, i, team, oracle) ==
    IF st.panic \/ i > Len(text) THEN st
    ELSE IF MatchAt(text, i)
    THEN LET j == MatchEnd(text, i)
         IN  ReplaceAll(ReplaceMention(st, SubSeq(text, i, j), team, oracle),
                        text, j + 1, team, oracle)
    ELSE ReplaceAll([st EXCEPT !.out = Append(@, text[i])], text, i + 1, team, oracle)

\* The number of matches without "|": the most GetUserInfo calls one
\* RewriteMentions can make.
RECURSIVE CountLookups(_, _)
CountLookups(text, i) ==
    IF i > Len(text) THEN 0
    ELSE IF MatchAt(text, i)
    THEN LET j == MatchEnd(text, i)
         IN  (IF Contains(SubSeq(text, i + 2, j - 1), "|") THEN 0 ELSE 1)
             + CountLookups(text, j + 1)
    ELSE CountLookups(text, i + 1)

----------------------------------------------------------------------------
(* What clients post *)

Flatten(parts) ==
    LET F[k \in 0..Len(parts)] == IF k = 0 THEN <<>> ELSE F[k - 1] \o parts[k]
    IN  F[Len(parts)]

\* The texts posted to the running server, each as the pieces it is made
\* of: single characters and mention markup.
SampleParts ==
    { <<>>,
      <<<<"x">>, Mention(U1)>>,
      <<MentionNamed(U1, bo), <<"x">>>>,
      <<<<"<">>, MentionNamed(U2, bo), <<">">>>>,
      <<Mention(U1), MentionNamed(U1, bo), Mention(U2)>> }

UserNames == {"bob", "slackbot"}
Tokens == {"", "s1", "s2", "s3"}

Form(c, user, token, parts) ==
    [team_id |-> c.TeamId, channel_id |-> c.ChannelId, user_name |-> user,
     token |-> token, text |-> Flatten(parts), parts |-> parts]

Forms == {Form(c, u, t, p) : c \in AllChannels, u \in UserNames, t \in Tokens, p \in SampleParts}

NoForm == Form(ZeroChannel, "", "", <<>>)

SlackMessage(c, user, text, icon, link) ==
    [Channel |-> c, Username |-> user, Text |-> text, Icon |-> icon, LinkNames |-> link]

NoMsg == SlackMessage(ZeroChannel, "", <<>>, "", FALSE)

\* json.Marshal of the message: the embedded Channel's fields, then the rest.
payload(m) ==
    [TeamId |-> m.Channel.TeamId, channel |-> m.Channel.ChannelId,
     username |-> m.Username, text |-> m.Text, icon_url |-> m.Icon, link_names |-> TRUE]

----------------------------------------------------------------------------
(* main *)

Init ==
    /\ env \in Envs
    /\ server = "start"
    /\ config = NoConfig
    /\ pc = [r \in {1} |-> "idle"]
    /\ form = [r \in {1} |-> NoForm]
    /\ msg = [r \in {1} |-> NoMsg]
    /\ idx = [r \in {1} |-> 0]
    /\ status = [r \in {1} |-> 0]
    /\ calls = [r \in {1} |-> <<>>]
    /\ rewrote = [r \in {1} |-> FALSE]
    /\ posts = [r \in {1} |-> <<>>]

handlerVars == <<pc, form, msg, idx, status, calls, rewrote, posts>>

\* main up to router.Run: log.Fatal without $PORT, the panic of
\* GetConfiguration, or the endpoint starts.
Startup ==
    /\ server = "start"
    /\ LET c == GetConfiguration(env)
       IN  IF env.port = "" \/ c.panic
           THEN server' = "fatal" /\ config' = config
           ELSE /\ server' = "serving"
                /\ config' = [teams |-> c.teams, channelMap |-> c.channelMap,
                              outboundTokens |-> c.outboundTokens]
    /\ UNCHANGED <<env, handlerVars>>

----------------------------------------------------------------------------
(* The POST /bridge handler, one goroutine per request *)

\* A panic in the handler: gin's Recovery middleware (gin.Default) answers 500.
Panicked(r) ==
    /\ pc' = [pc EXCEPT ![r] = "panicked"]
    /\ status' = [status EXCEPT ![r] = 500]

\* Receive with the message in a variable shared by all handler goroutines.
Receive_SharedMsg(r, f) ==
    /\ server = "serving"
    /\ pc[r] = "idle"
    /\ form' = [form EXCEPT ![r] = f]
    /\ msg' = [q \in DOMAIN msg |->
                 SlackMessage(Channel(f.team_id, f.channel_id), f.user_name, f.text, "", FALSE)]
    /\ status' = [status EXCEPT ![r] = 200]
    /\ pc' = [pc EXCEPT ![r] = "verify"]
    /\ UNCHANGED <<env, server, config, idx, calls, rewrote, posts>>

\* The message is built from the form and the status set to 200.
Receive(r, f) ==
    /\ server = "serving"
    /\ pc[r] = "idle"
    /\ form' = [form EXCEPT ![r] = f]
    /\ msg' = [msg EXCEPT ![r] =
                 SlackMessage(Channel(f.team_id, f.channel_id), f.user_name, f.text, "", FALSE)]
    /\ status' = [status EXCEPT ![r] = 200]
    /\ pc' = [pc EXCEPT ![r] = "verify"]
    /\ UNCHANGED <<env, server, config, idx, calls, rewrote, posts>>

\* Verify that also records the presented token for a channel without an
\* entry.
Verify_Learn(r) ==
    /\ pc[r] = "verify"
    /\ pc' = [pc EXCEPT ![r] =
                IF ~VerifyToken(msg[r].Channel, form[r].token) THEN "done" ELSE "botcheck"]
    /\ LET tokens == config.outboundTokens
       IN  config' = [config EXCEPT !.outboundTokens =
                        [c \in DOMAIN tokens \cup {msg[r].Channel} |->
                            IF c \in DOMAIN tokens THEN tokens[c] ELSE form[r].token]]
    /\ UNCHANGED <<env, server, form, msg, idx, status, calls, rewrote, posts>>

Verify(r) ==
    /\ pc[r] = "verify"
    /\ pc' = [pc EXCEPT ![r] =
                IF ~VerifyToken(msg[r].Channel, form[r].token) THEN "done" ELSE "botcheck"]
    /\ UNCHANGED <<env, server, config, form, msg, idx, status, calls, rewrote, posts>>

BotCheck_Forward(r) ==
    /\ pc[r] = "botcheck"
    /\ pc' = [pc EXCEPT ![r] = "icon"]
    /\ UNCHANGED <<env, server, config, form, msg, idx, status, calls, rewrote, posts>>

BotCheck(r) ==
    /\ pc[r] = "botcheck"
    /\ pc' = [pc EXCEPT ![r] = IF msg[r].Username = "slackbot" THEN "done" ELSE "icon"]
    /\ UNCHANGED <<env, server, config, form, msg, idx, status, calls, rewrote, posts>>

FetchUserIcon(r) ==
    /\ pc[r] = "icon"
    /\ LET team == GetTeam(msg[r].Channel)
       IN  IF team.nil
           THEN /\ Panicked(r)
                /\ UNCHANGED <<msg, calls>>
           ELSE \E res \in LookupResults :
                /\ calls' = [calls EXCEPT ![r] =
                               Append(@, UserCall("FetchUserIcon", team, msg[r].Username, res))]
                /\ msg' = [msg EXCEPT ![r].Icon =
                             IF ~res.err THEN res.user.ImageOriginal ELSE @]
                /\ pc' = [pc EXCEPT ![r] = "rewrite"]
                /\ status' = status
    /\ UNCHANGED <<env, server, config, form, idx, rewrote, posts>>

RewriteMentions(r) ==
    /\ pc[r] = "rewrite"
    /\ \E oracle \in [1..CountLookups(msg[r].Text, 1) -> LookupResults] :
        LET st == ReplaceAll([panic |-> FALSE, out |-> <<>>, calls |-> <<>>],
                             msg[r].Text, 1, GetTeam(msg[r].Channel), oracle)
        IN  /\ calls' = [calls EXCEPT ![r] = @ \o st.calls]
            /\ rewrote' = [rewrote EXCEPT ![r] = TRUE]
            /\ IF st.panic
               THEN /\ Panicked(r)
                    /\ UNCHANGED <<msg, idx>>
               ELSE /\ msg' = [msg EXCEPT ![r].Text = st.out]
                    /\ pc' = [pc EXCEPT ![r] = "forward"]
                    /\ idx' = [idx EXCEPT ![r] = 1]
                    /\ status' = status
    /\ UNCHANGED <<env, server, config, form, posts>>

\* WebhookPostMessage that posts with the team of the message's own channel.
WebhookPostMessage_OriginTeam(r, other) ==
    LET team == GetTeam(msg[r].Channel)
    IN  IF team.nil
        THEN /\ Panicked(r)
             /\ UNCHANGED <<msg, posts>>
        ELSE \E result \in {"200", "non-200", "transport error"} :
             /\ msg' = [msg EXCEPT ![r].LinkNames = TRUE]
             /\ posts' = [posts EXCEPT ![r] =
                    Append(@, [to |-> other, teamId |-> team.Id,
                               incomingToken |-> team.IncomingToken,
                               body |-> payload(msg[r]), result |-> result])]
             /\ UNCHANGED <<pc, status>>

\* WebhookPostMessage whose payload step also changes the message text.
WebhookPostMessage_MutatesText(r, other) ==
    LET team == GetTeam(other)
    IN  IF team.nil
        THEN /\ Panicked(r)
             /\ UNCHANGED <<msg, posts>>
        ELSE \E result \in {"200", "non-200", "transport error"} :
             /\ msg' = [msg EXCEPT ![r].LinkNames = TRUE, ![r].Text = <<"@">> \o @]
             /\ posts' = [posts EXCEPT ![r] =
                    Append(@, [to |-> other, teamId |-> team.Id,
                               incomingToken |-> team.IncomingToken,
                               body |-> payload(msg[r]), result |-> result])]
             /\ UNCHANGED <<pc, status>>

\* c.WebhookPostMessage(&msg) for the peer `other`: a nil team panics on
\* team.Id; otherwise one http.Post, whose error or status is returned to
\* the caller.
WebhookPostMessage(r, other) ==
    LET team == GetTeam(other)
    IN  IF team.nil
        THEN /\ Panicked(r)
             /\ UNCHANGED <<msg, posts>>
        ELSE \E result \in {"200", "non-200", "transport error"} :
             /\ msg' = [msg EXCEPT ![r].LinkNames = TRUE]
             /\ posts' = [posts EXCEPT ![r] =
                    Append(@, [to |-> other, teamId |-> team.Id,
                               incomingToken |-> team.IncomingToken,
                               body |-> payload(msg[r]), result |-> result])]
             /\ UNCHANGED <<pc, status>>

\* One iteration of Forward's range loop, with the call of the handler's
\* closure it makes (the returned error is dropped); or the end of the loop
\* and of the handler.
ForwardStep(r) ==
    /\ pc[r] = "forward"
    /\ LET c == msg[r].Channel
           peers == ChannelMapAt(c)
       IN  IF idx[r] > Len(peers)
           THEN /\ pc' = [pc EXCEPT ![r] = "done"]
                /\ UNCHANGED <<msg, idx, status, posts>>
           ELSE LET other == peers[idx[r]]
                IN  IF c = other
                    THEN /\ idx' = [idx EXCEPT ![r] = @ + 1]
                         /\ UNCHANGED <<pc, msg, status, posts>>
                    ELSE /\ WebhookPostMessage(r, other)
                         /\ idx' = [idx EXCEPT ![r] = IF GetTeam(other).nil THEN @ ELSE @ + 1]
    /\ UNCHANGED <<env, server, config, form, calls, rewrote>>

\* The response is written and the goroutine ends.
Respond(r) ==
    /\ pc[r] \in {"done", "panicked"}
    /\ pc' = [pc EXCEPT ![r] = "idle"]
    /\ form' = [form EXCEPT ![r] = NoForm]
    /\ msg' = [msg EXCEPT ![r] = NoMsg]
    /\ idx' = [idx EXCEPT ![r] = 0]
    /\ status' = [status EXCEPT ![r] = 0]
    /\ calls' = [calls EXCEPT ![r] = <<>>]
    /\ rewrote' = [rewrote EXCEPT ![r] = FALSE]
    /\ posts' = [posts EXCEPT ![r] = <<>>]
    /\ UNCHANGED <<env, server, config>>

Next ==
    \/ Startup
    \/ \E r \in DOMAIN pc : \E f \in Forms : Receive(r, f)
    \/ \E r \in DOMAIN pc : Verify(r)
    \/ \E r \in DOMAIN pc : BotCheck(r)
    \/ \E r \in DOMAIN pc : FetchUserIcon(r)
    \/ \E r \in DOMAIN pc : RewriteMentions(r)
    \/ \E r \in DOMAIN pc : ForwardStep(r)
    \/ \E r \in DOMAIN pc : Respond(r)

Spec == Init /\ [][Next]_vars

----------------------------------------------------------------------------
(* Two requests handled concurrently by the running server *)

ConcEnv ==
    [port |-> "5000",
     teams |-> <<Team("T1", "api1", "in1"), Team("T2", "api2", "in2"), Team("T3", "api3", "in3")>>,
     groups |-> <<<<Channel("T1", "C1"), Channel("T2", "C2"), Channel("T3", "C3")>>>>,
     tokens |-> <<Secret(Channel("T1", "C1"), "s1"), Secret(Channel("T2", "C2"), "s2"),
                  Secret(Channel("T3", "C3"), "s3")>>]

FormsConc ==
    { Form(Channel("T1", "C1"), "bob", "s1", <<<<"x">>, Mention(U1)>>),
      Form(Channel("T2", "C2"), "amy", "s2", <<MentionNamed(U1, bo)>>),
      Form(Channel("T1", "C1"), "amy", "s1", <<>>) }

\* The endpoint is serving and two handler goroutines can run.
InitConc ==
    /\ env = ConcEnv
    /\ server = "serving"
    /\ config = [teams |-> GetConfiguration(ConcEnv).teams,
                 channelMap |-> GetConfiguration(ConcEnv).channelMap,
                 outboundTokens |-> GetConfiguration(ConcEnv).outboundTokens]
    /\ pc = [r \in {1, 2} |-> "idle"]
    /\ form = [r \in {1, 2} |-> NoForm]
    /\ msg = [r \in {1, 2} |-> NoMsg]
    /\ idx = [r \in {1, 2} |-> 0]
    /\ status = [r \in {1, 2} |-> 0]
    /\ calls = [r \in {1, 2} |-> <<>>]
    /\ rewrote = [r \in {1, 2} |-> FALSE]
    /\ posts = [r \in {1, 2} |-> <<>>]

NextConc ==
    \/ \E r \in DOMAIN pc : \E f \in FormsConc : Receive(r, f)
    \/ \E r \in DOMAIN pc : Verify(r)
    \/ \E r \in DOMAIN pc : BotCheck(r)
    \/ \E r \in DOMAIN pc : FetchUserIcon(r)
    \/ \E r \in DOMAIN pc : RewriteMentions(r)
    \/ \E r \in DOMAIN pc : ForwardStep(r)
    \/ \E r \in DOMAIN pc : Respond(r)

SpecConc == InitConc /\ [][NextConc]_vars

----------------------------------------------------------------------------
(* Vocabulary of the properties *)

Handlers == DOMAIN pc

Origin(r) == msg[r].Channel

Finished(r) == pc[r] \in {"done", "panicked"}

Registered(c) == c \in DOMAIN config.outboundTokens

\* The request of r has passed token verification and the slackbot check.
Accepted(r) ==
    /\ pc[r] \notin {"idle", "verify", "botcheck"}
    /\ VerifyToken(Origin(r), form[r].token)
    /\ msg[r].Username # "slackbot"

PostsTo(r, c) == {k \in 1..Len(posts[r]) : posts[r][k].to = c}

Members(c) == {ChannelMapAt(c)[k] : k \in 1..Len(ChannelMapAt(c))}

MentionCalls(r) == SelectSeq(calls[r], LAMBDA call : call.by = "RewriteMentions")

\* The pieces of a posted text.
Named(p) == Len(p) > 1 /\ Contains(p, "|")
Bare(p) == Len(p) > 1 /\ ~Contains(p, "|")
IdOf(p) == SubSeq(p, 3, Len(p) - 1)
NameOf(p) == SubSeq(p, (CHOOSE k \in 1..Len(p) : p[k] = "|") + 1, Len(p) - 1)

\* The ids of the mentions without an inline name, in order.
BareIds(parts) ==
    LET bare == SelectSeq(parts, Bare)
    IN  [k \in 1..Len(bare) |-> IdOf(bare[k])]

\* The text in which every mention with an inline name is replaced by
\* "@name", the k-th mention without one by "@" and subs[k], and the rest
\* is kept.
RECURSIVE Expect(_, _, _)
Expect(parts, subs, k) ==
    IF k > Len(parts) THEN <<>>
    ELSE LET p == parts[k]
         IN  IF Named(p) THEN <<"@">> \o NameOf(p) \o Expect(parts, subs, k + 1)
             ELSE IF Bare(p) THEN <<"@">> \o Head(subs) \o Expect(parts, Tail(subs), k + 1)
             ELSE p \o Expect(parts, subs, k + 1)

\* (group, position) places of channel c in the configured groups.
Occurrences(groups, c) ==
    {q \in (1..Len(groups)) \X (1..MaxGroupLen) :
        q[2] <= Len(groups[q[1]]) /\ groups[q[1]][q[2]] = c}

Repeated(groups) == \E c \in AllChannels : Cardinality(Occurrences(groups, c)) > 1

----------------------------------------------------------------------------
(* The claims *)

\* C1: a verified request that is not from slackbot is delivered exactly
\* once to each member of the origin channel's group other than the origin,
\* and never to the origin itself.
C1_OneDeliveryPerPeer ==
    \A r \in Handlers :
        (Finished(r) /\ Accepted(r)) =>
            /\ \A p \in Members(Origin(r)) \ {Origin(r)} : Cardinality(PostsTo(r, p)) = 1
            /\ PostsTo(r, Origin(r)) = {}

\* C2: VerifyToken is false for every channel without an entry in the
\* outbound token table, whatever the token, the empty string included.
C2_UnknownChannelNeverVerifies ==
    server = "serving" =>
        \A c \in AllChannels : \A t \in Tokens :
            ~Registered(c) => ~VerifyToken(c, t)

\* C3: a request whose token differs from the origin channel's registered
\* secret, or whose origin channel has no registered secret, is dropped:
\* no user lookup, no mention rewrite, no delivery.
C3_UnauthenticatedDropped ==
    \A r \in Handlers :
        ( /\ pc[r] \notin {"idle", "verify"}
          /\ \/ ~Registered(Origin(r))
             \/ config.outboundTokens[Origin(r)] # form[r].token )
        => /\ pc[r] = "done"
           /\ calls[r] = <<>>
           /\ ~rewrote[r]
           /\ posts[r] = <<>>

\* C4: when a delivery fails (transport error or a status other than 200),
\* the handler still attempts the delivery to every later peer of the
\* group, Forward returns normally, and the failed delivery is not retried.
C4_FailureDoesNotStopForwarding ==
    \A r \in Handlers :
        Finished(r) =>
            \A k \in 1..Len(posts[r]) :
                posts[r][k].result # "200" =>
                    LET group == ChannelMapAt(Origin(r))
                    IN  /\ pc[r] = "done"
                        /\ Cardinality(PostsTo(r, posts[r][k].to)) = 1
                        /\ \A i, j \in 1..Len(group) :
                              (i < j /\ group[i] = posts[r][k].to /\ group[j] # Origin(r))
                              => PostsTo(r, group[j]) # {}

\* C5: a request from the user slackbot causes no delivery, no user lookup
\* and no rewrite, and is answered 200.
C5_SlackbotSuppressed ==
    \A r \in Handlers :
        (pc[r] # "idle" /\ msg[r].Username = "slackbot") =>
            /\ pc[r] \in {"verify", "botcheck", "done"}
            /\ posts[r] = <<>>
            /\ calls[r] = <<>>
            /\ ~rewrote[r]
            /\ status[r] = 200

\* C5 witness: a slackbot request with the registered secret has been
\* handled to its end.
C5_Witness ==
    \E r \in Handlers :
        /\ pc[r] = "done"
        /\ msg[r].Username = "slackbot"
        /\ Registered(Origin(r))
        /\ config.outboundTokens[Origin(r)] = form[r].token

\* C6: a channel map naming some channel twice, in two groups or in one,
\* is fatal: no configuration is set and the endpoint never serves; so in
\* every table that was built each channel is in at most one group, the
\* one its entry holds.
C6_RepeatedChannelIsFatal ==
    /\ Repeated(env.groups) => (server # "serving" /\ config = NoConfig)
    /\ server = "serving" =>
          \A c \in AllChannels :
              /\ Cardinality(Occurrences(env.groups, c)) <= 1
              /\ c \in DOMAIN config.channelMap <=> Occurrences(env.groups, c) # {}
              /\ \A q \in Occurrences(env.groups, c) : config.channelMap[c] = env.groups[q[1]]

\* C6 witness: startup has failed on a channel that is in two distinct
\* groups.
C6_Witness ==
    /\ server = "fatal"
    /\ env.port # ""
    /\ \E c \in AllChannels : \E q1, q2 \in Occurrences(env.groups, c) : q1[1] # q2[1]

\* C7: a mention without an inline name whose lookup succeeds is replaced
\* by "@" and the looked-up name.
C7_LookedUpNameSubstituted ==
    \A r \in Handlers :
        LET M == MentionCalls(r)
            ids == BareIds(form[r].parts)
        IN  (rewrote[r] /\ Len(M) = Len(ids) /\ \A k \in 1..Len(M) : ~M[k].err)
            => msg[r].Text = Expect(form[r].parts, [k \in 1..Len(M) |-> M[k].name], 1)

\* C8: a mention without an inline name whose lookup fails is replaced by
\* "@" and the id, the text around it is kept, and the handler goes on to
\* forwarding.
C8_FailedLookupKeepsId ==
    \A r \in Handlers :
        LET M == MentionCalls(r)
            ids == BareIds(form[r].parts)
        IN  (rewrote[r] /\ Len(M) > 0 /\ \A k \in 1..Len(M) : M[k].err)
            => /\ pc[r] \in {"forward", "done"}
               /\ Len(M) = Len(ids)
               /\ msg[r].Text = Expect(form[r].parts, ids, 1)

\* C9: once RewriteMentions has run, every mention with an inline name is
\* replaced by "@name" whatever the lookups return, no lookup is made for
\* it, every other mention is replaced too and the rest of the text is
\* unchanged.
C9_InlineNameUsed ==
    \A r \in Handlers :
        LET M == MentionCalls(r)
            ids == BareIds(form[r].parts)
        IN  rewrote[r] =>
                /\ Len(M) <= Len(ids)
                /\ \A k \in 1..Len(M) : M[k].user = ids[k]
                /\ \E subs \in [1..Len(ids) -> {U1, U2, al}] :
                      /\ \A k \in 1..Len(ids) : subs[k] \in {ids[k], al}
                      /\ msg[r].Text = Expect(form[r].parts, subs, 1)

\* C10: every request is answered with status 200.
C10_AlwaysSuccess ==
    \A r \in Handlers : pc[r] # "idle" => status[r] = 200

\* C11: the body of each delivery carries the channel id of the peer it is
\* delivered to, with the sender's username, the rewritten text, the avatar
\* and link_names set.
C11_BodyNamesDestination ==
    \A r \in Handlers : \A k \in 1..Len(posts[r]) :
        LET post == posts[r][k]
        IN  /\ post.body.channel = post.to.ChannelId
            /\ post.body.username = msg[r].Username
            /\ post.body.text = msg[r].Text
            /\ post.body.icon_url = msg[r].Icon
            /\ post.body.link_names

\* C12: a channel in no configured group has no peers, and forwarding a
\* message from it makes no delivery and ends normally.
C12_UngroupedChannelNoOp ==
    /\ [](\A r \in Handlers :
            (pc[r] # "idle" /\ Occurrences(env.groups, Origin(r)) = {}) =>
                /\ ChannelMapAt(Origin(r)) = <<>>
                /\ posts[r] = <<>>)
    /\ [][\A r \in Handlers :
            (pc[r] = "forward" /\ Occurrences(env.groups, Origin(r)) = {}) =>
                (pc'[r] = "done" /\ posts'[r] = <<>> /\ status'[r] = 200)]_vars

\* C12 witness: the forwarding of an accepted message from a channel in no
\* group has ended.
C12_Witness ==
    \E r \in Handlers :
        /\ pc[r] = "done"
        /\ Accepted(r)
        /\ rewrote[r]
        /\ Registered(Origin(r))
        /\ Occurrences(env.groups, Origin(r)) = {}

\* The accepted request of r whose avatar lookup has not succeeded: the
\* GetUserInfo call of FetchUserIcon returned an error, or the origin's team
\* did not resolve.
AvatarLookupFailed(r) ==
    /\ Accepted(r)
    /\ pc[r] # "icon"
    /\ \/ GetTeam(Origin(r)).nil
       \/ (calls[r] # <<>> /\ calls[r][1].by = "FetchUserIcon" /\ calls[r][1].err)

\* C13: when the avatar lookup fails the avatar stays unset, the request is
\* not aborted, and the mention rewrite and the forwarding to all peers
\* still take place.
C13_AvatarFailureNotFatal ==
    \A r \in Handlers :
        AvatarLookupFailed(r) =>
            /\ msg[r].Icon = ""
            /\ pc[r] # "panicked"
            /\ pc[r] = "done" =>
                  /\ rewrote[r]
                  /\ \A p \in Members(Origin(r)) \ {Origin(r)} : PostsTo(r, p) # {}

\* C14: after construction the entry of every channel of a group is the
\* whole group in configured order, so two members of a group have the
\* same entry and each is in the other's.
C14_EntryIsWholeGroup ==
    server = "serving" =>
        /\ \A g \in 1..Len(env.groups) : \A k \in 1..Len(env.groups[g]) :
              ChannelMapAt(env.groups[g][k]) = env.groups[g]
        /\ \A c, d \in DOMAIN config.channelMap :
              /\ d \in Members(c) <=> c \in Members(d)
              /\ d \in Members(c) => config.channelMap[c] = config.channelMap[d]
              /\ c \in Members(c)

\* C14 witness: a group of three was built; its first member's entry ends
\* with the member configured last.
C14_Witness ==
    /\ server = "serving"
    /\ \E g \in 1..Len(env.groups) :
          /\ Len(env.groups[g]) = 3
          /\ ChannelMapAt(env.groups[g][1])[3] = env.groups[g][3]

\* C15: each delivery to a peer is made with the team id and incoming
\* token the registry holds for the peer's team, not with those of the
\* origin's team.
C15_DestinationCredentials ==
    \A r \in Handlers : \A k \in 1..Len(posts[r]) :
        LET post == posts[r][k]
        IN  /\ post.to.TeamId \in DOMAIN config.teams
            /\ post.teamId = post.to.TeamId
            /\ post.incomingToken = config.teams[post.to.TeamId].IncomingToken
            /\ (post.to.TeamId # Origin(r).TeamId /\ Origin(r).TeamId \in DOMAIN config.teams)
               => /\ post.teamId # config.teams[Origin(r).TeamId].Id
                  /\ post.incomingToken # config.teams[Origin(r).TeamId].IncomingToken

\* C15 witness: a delivery was made to a peer of another team than the
\* origin's.
C15_Witness ==
    \E r \in Handlers : \E k \in 1..Len(posts[r]) :
        /\ posts[r][k].to.TeamId # Origin(r).TeamId
        /\ Origin(r).TeamId \in DOMAIN config.teams

\* C16: an accepted request runs to the end of its forwarding: the handler
\* is never aborted, and when it ends every peer of the origin has had its
\* delivery attempt.
C16_AcceptedRunsToCompletion ==
    \A r \in Handlers :
        Accepted(r) =>
            /\ pc[r] # "panicked"
            /\ pc[r] = "done" =>
                  \A p \in Members(Origin(r)) \ {Origin(r)} : PostsTo(r, p) # {}

\* C17: a delivery is made only after the token was verified, the avatar
\* fetched and the mentions rewritten, and every delivery of the request
\* carries the same username, rewritten text and avatar.
C17_DeliveriesAfterRewrite ==
    \A r \in Handlers :
        posts[r] # <<>> =>
            /\ VerifyToken(Origin(r), form[r].token)
            /\ calls[r] # <<>> /\ calls[r][1].by = "FetchUserIcon"
            /\ rewrote[r]
            /\ Len(MentionCalls(r)) = Len(BareIds(form[r].parts))
            /\ \A k \in 1..Len(posts[r]) :
                  /\ posts[r][k].body.username = form[r].user_name
                  /\ posts[r][k].body.text = msg[r].Text
                  /\ posts[r][k].body.text = Expect(form[r].parts, BareIds(form[r].parts), 1)
                  /\ posts[r][k].body.icon_url = msg[r].Icon
                  /\ posts[r][k].body.icon_url = (IF calls[r][1].err THEN "" ELSE "img")
            /\ \A j, k \in 1..Len(posts[r]) :
                  /\ posts[r][j].body.username = posts[r][k].body.username
                  /\ posts[r][j].body.text = posts[r][k].body.text
                  /\ posts[r][j].body.icon_url = posts[r][k].body.icon_url

\* C17 witness: a request with mention markup and an avatar was delivered
\* to two peers.
C17_Witness ==
    \E r \in Handlers :
        /\ Len(posts[r]) = 2
        /\ form[r].parts = <<Mention(U1), MentionNamed(U1, bo), Mention(U2)>>
        /\ msg[r].Icon = "img"

\* C18: handling requests never changes the team registry, the channel
\* group table or the outbound token table: while the endpoint serves they
\* are what startup built from the environment.
C18_TablesReadOnly ==
    /\ [](server = "serving" =>
            LET built == GetConfiguration(env)
            IN  /\ config.teams = built.teams
                /\ config.channelMap = built.channelMap
                /\ config.outboundTokens = built.outboundTokens)
    /\ [][server = "serving" => (config' = config /\ env' = env /\ server' = server)]_vars

\* C18 witness: a request has been verified, rewritten and delivered.
C18_Witness ==
    \E r \in Handlers : pc[r] = "done" /\ posts[r] # <<>> /\ rewrote[r]

\* C19: when two requests are handled concurrently, every delivery carries
\* the username, text and avatar of the request that made it and goes to a
\* peer of that request's origin; nothing of the other request is in it.
C19_NoCrossRequestContent ==
    \A r \in Handlers : \A k \in 1..Len(posts[r]) :
        LET post == posts[r][k]
            origin == Channel(form[r].team_id, form[r].channel_id)
        IN  /\ post.body.username = form[r].user_name
            /\ post.body.text = Expect(form[r].parts, BareIds(form[r].parts), 1)
            /\ post.body.icon_url = (IF calls[r][1].err THEN "" ELSE "img")
            /\ post.body.TeamId = origin.TeamId
            /\ post.to \in Members(origin) \ {origin}
            /\ \A q \in Handlers \ {r} :
                  /\ form[q].user_name # form[r].user_name
                     => post.body.username # form[q].user_name
                  /\ form[q].text # form[r].text
                     => post.body.text # Expect(form[q].parts, BareIds(form[q].parts), 1)

\* C19 witness: two requests of different users from different channels
\* are both in the middle of their deliveries.
C19_Witness ==
    \E r, q \in Handlers :
        /\ r # q
        /\ pc[r] = "forward" /\ pc[q] = "forward"
        /\ posts[r] # <<>> /\ posts[q] # <<>>
        /\ form[r].user_name # form[q].user_name
        /\ form[r].channel_id # form[q].channel_id

====
